---- MODULE Spec2Model ----
(***************************************************************************)
(* A model of MapTileDownloader.py: main() parses two corner strings and a *)
(* zoom, download_map_region() probes one tile for the tile size, plans    *)
(* the canvas, starts one build_row thread per tile row, joins them and    *)
(* hands the canvas to cv2.imwrite.                                        *)
(*                                                                         *)
(* Strings are tuples of one-character strings.  Floats are kept exact:    *)
(* a parsed decimal is the rational n/d, a projected coordinate is the     *)
(* rational n/d, and int(v) truncates toward zero as Python's int() does.  *)
(***************************************************************************)
EXTENDS Integers, Sequences, FiniteSets, Bags, TLC

----------------------------------------------------------------------------
(* Arithmetic helpers *)

Min(a, b) == IF a <= b THEN a ELSE b

Max(a, b) == IF a >= b THEN a ELSE b

Abs(a) == IF a < 0 THEN -a ELSE a

\* Python's int(n/d) for d > 0: truncation toward zero.
Trunc(n, d) == IF n >= 0 THEN n \div d ELSE -((-n) \div d)

RECURSIVE Pow(_, _)
Pow(b, e) == IF e = 0 THEN 1 ELSE b * Pow(b, e - 1)

----------------------------------------------------------------------------
(* main(): lat_long() and int(args.zoom) *)

DigitVal ==
  [c \in {"0", "1", "2", "3", "4", "5", "6", "7", "8", "9"} |->
     CASE c = "0" -> 0 [] c = "1" -> 1 [] c = "2" -> 2 [] c = "3" -> 3
       [] c = "4" -> 4 [] c = "5" -> 5 [] c = "6" -> 6 [] c = "7" -> 7
       [] c = "8" -> 8 [] c = "9" -> 9]

Digits == DOMAIN DigitVal

Signs == {"+", "-"}

\* The index after the longest run of characters of class C starting at s[i].
RECURSIVE RunEnd(_, _, _)
RunEnd(s, i, C) ==
  IF i <= Len(s) /\ s[i] \in C THEN RunEnd(s, i + 1, C) ELSE i

\* re pattern [+-]?\d*\.\d+ tried at position i: the index after the match,
\* 0 when there is none.  The quantifiers are greedy and no shorter choice
\* can succeed: the '.' has to follow the whole digit run.
MatchDecimal(s, i) ==
  LET j == IF i <= Len(s) /\ s[i] \in Signs THEN i + 1 ELSE i
      k == RunEnd(s, j, Digits)
      m == RunEnd(s, k + 1, Digits)
  IN  IF k <= Len(s) /\ s[k] = "." /\ m > k + 1 THEN m ELSE 0

\* re pattern d+ (the literal letter d) tried at position i.
MatchLetterD(s, i) ==
  LET e == RunEnd(s, i, {"d"}) IN IF e > i THEN e ELSE 0

\* The alternation [+-]?\d*\.\d+|d+ at position i: first alternative first.
MatchAt(s, i) ==
  IF MatchDecimal(s, i) # 0 THEN MatchDecimal(s, i) ELSE MatchLetterD(s, i)

\* re.findall(pattern, data): non-overlapping matches, scanning left to right.
RECURSIVE FindAllFrom(_, _)
FindAllFrom(s, i) ==
  IF i > Len(s) THEN << >>
  ELSE LET e == MatchAt(s, i)
       IN  IF e = 0 THEN FindAllFrom(s, i + 1)
           ELSE <<SubSeq(s, i, e - 1)>> \o FindAllFrom(s, e)

findall(s) == FindAllFrom(s, 1)

\* The value of a digit string, most significant digit first.
RECURSIVE DigitsToInt(_)
DigitsToInt(s) ==
  IF s = << >> THEN 0
  ELSE 10 * DigitsToInt(SubSeq(s, 1, Len(s) - 1)) + DigitVal[s[Len(s)]]

\* float(tok) accepts what the first alternative matches and rejects d, dd...
FloatOk(tok) == MatchDecimal(tok, 1) = Len(tok) + 1

\* float(tok) as the exact rational n/d, d a power of ten.
float(tok) ==
  LET j    == IF tok[1] \in Signs THEN 2 ELSE 1
      k    == RunEnd(tok, j, Digits)
      ip   == SubSeq(tok, j, k - 1)
      fp   == SubSeq(tok, k + 1, Len(tok))
      d    == Pow(10, Len(fp))
      mag  == DigitsToInt(ip) * d + DigitsToInt(fp)
  IN  [n |-> IF tok[1] = "-" THEN -mag ELSE mag, d |-> d]

\* lat_long() as it would be if it took the first two tokens of findall and
\* ignored the rest.
lat_long_first_two(data) ==
  LET toks == findall(data)
  IN  IF Len(toks) >= 2 /\ FloatOk(toks[1]) /\ FloatOk(toks[2])
      THEN [ok |-> TRUE, lat |-> float(toks[1]), lon |-> float(toks[2])]
      ELSE [ok |-> FALSE, lat |-> [n |-> 0, d |-> 1], lon |-> [n |-> 0, d |-> 1]]

\* lat_long(data): raises (ok = FALSE) unless findall yields exactly two
\* tokens that float() accepts.
lat_long(data) ==
  LET toks == findall(data)
  IN  IF Len(toks) = 2 /\ FloatOk(toks[1]) /\ FloatOk(toks[2])
      THEN [ok |-> TRUE, lat |-> float(toks[1]), lon |-> float(toks[2])]
      ELSE [ok |-> FALSE, lat |-> [n |-> 0, d |-> 1], lon |-> [n |-> 0, d |-> 1]]

\* The characters int() skips around the literal, of the characters a string
\* of the model can hold (U+0000 .. U+00FF): blank, tab, line feed, carriage
\* return, form feed, vertical tab, next line (U+0085) and no-break space
\* (U+00A0).
Whitespace == {" ", "\t", "\n", "\r", "\f", "", "", " "}

\* The literal without the whitespace around it, as int() reads it.
RECURSIVE Strip(_)
Strip(s) ==
  IF s # << >> /\ s[1] \in Whitespace THEN Strip(Tail(s))
  ELSE IF s # << >> /\ s[Len(s)] \in Whitespace
       THEN Strip(SubSeq(s, 1, Len(s) - 1))
  ELSE s

\* The digits and underscores of an int literal, after the sign.
IntBody(s) ==
  LET t == Strip(s)
  IN  IF t # << >> /\ t[1] \in Signs THEN Tail(t) ELSE t

\* int(args.zoom) accepts whitespace around an optional sign and digits,
\* single underscores allowed between digits; anything else raises
\* ValueError.
IntOk(s) ==
  LET b == IntBody(s)
  IN  /\ b # << >>
      /\ b[1] \in Digits /\ b[Len(b)] \in Digits
      /\ \A i \in 1 .. Len(b) : b[i] \in Digits \cup {"_"}
      /\ \A i \in 1 .. Len(b) - 1 : ~(b[i] = "_" /\ b[i + 1] = "_")

IsDigit(c) == c \in Digits

int(s) ==
  LET mag == DigitsToInt(SelectSeq(IntBody(s), IsDigit))
  IN  IF Strip(s)[1] = "-" THEN -mag ELSE mag

----------------------------------------------------------------------------
(* main(): parser.parse_args() (line 285) for the parser of lines 273-279 *)

\* The option strings of the parser; -h and --help are argparse's own.
OptHelp == { <<"-","h">>, <<"-","-","h","e","l","p">> }

OptZoom == { <<"-","z">>, <<"-","-","z","o","o","m">> }

OptUrl == { <<"-","u">>, <<"-","-","u","r","l">> }

OptVersion == { <<"-","-","v","e","r","s","i","o","n">> }

OptionStrings == OptHelp \cup OptZoom \cup OptUrl \cup OptVersion

\* action="store" takes one argument; help and version take none.
TakesArg(o) == o \in OptZoom \cup OptUrl

\* The argument '--': every argument after the first one is a positional.
DashDash == <<"-","-">>

\* default=14 of --zoom, as int() reads it: int(14) = int('14').
DefaultZoom == <<"1","4">>

StartsWith(s, p) == Len(p) <= Len(s) /\ SubSeq(s, 1, Len(p)) = p

\* The first index of element c in the sequence s, 0 when there is none.
Find(s, c) ==
  IF \E i \in 1 .. Len(s) : s[i] = c
  THEN CHOOSE i \in 1 .. Len(s) : s[i] = c /\ \A j \in 1 .. i - 1 : s[j] # c
  ELSE 0

\* '$' of a pattern at index i: the end, or before a line feed at the end.
AtEnd(s, i) == i = Len(s) + 1 \/ (i = Len(s) /\ s[i] = "\n")

\* argparse's _negative_number_matcher, '^-\d+$|^-\d*\.\d+$'.
NegativeNumber(s) ==
  LET k == RunEnd(s, 2, Digits)
      m == RunEnd(s, k + 1, Digits)
  IN  /\ s[1] = "-"
      /\ \/ k > 2 /\ AtEnd(s, k)
         \/ k <= Len(s) /\ s[k] = "." /\ m > k + 1 /\ AtEnd(s, m)

\* One reading of an argument: k is "A" for a positional, "O" for an option,
\* "E" for an ambiguous option; opt is the option string (<< >> for an
\* option the parser does not have), has and ex the explicit argument.
Arg(k, opt, has, ex) == [k |-> k, opt |-> opt, has |-> has, ex |-> ex]

Positional == Arg("A", << >>, FALSE, << >>)

\* _get_option_tuples(s) for s = '-' and one more character at least: the
\* long options s abbreviates (up to a '='), or the short option s begins
\* with, the rest of s its argument.
get_option_tuples(s) ==
  IF s[2] = "-"
  THEN LET e == Find(s, "=")
           prefix == IF e = 0 THEN s ELSE SubSeq(s, 1, e - 1)
       IN  { Arg("O", o, e # 0, IF e = 0 THEN << >> ELSE SubSeq(s, e + 1, Len(s))) :
               o \in {q \in OptionStrings : StartsWith(q, prefix)} }
  ELSE { Arg("O", o, TRUE, SubSeq(s, 3, Len(s))) :
           o \in {q \in OptionStrings : q = SubSeq(s, 1, 2)} }
       \cup { Arg("O", o, FALSE, << >>) :
                o \in {q \in OptionStrings : q # SubSeq(s, 1, 2) /\ StartsWith(q, s)} }

\* _parse_optional(s).
parse_optional(s) ==
  LET e  == Find(s, "=")
      ts == get_option_tuples(s)
  IN  IF s = << >> THEN Positional
      ELSE IF s[1] # "-" THEN Positional
      ELSE IF s \in OptionStrings THEN Arg("O", s, FALSE, << >>)
      ELSE IF Len(s) = 1 THEN Positional
      ELSE IF e # 0 /\ SubSeq(s, 1, e - 1) \in OptionStrings
           THEN Arg("O", SubSeq(s, 1, e - 1), TRUE, SubSeq(s, e + 1, Len(s)))
      ELSE IF Cardinality(ts) > 1 THEN Arg("E", << >>, FALSE, << >>)
      ELSE IF Cardinality(ts) = 1 THEN CHOOSE t \in ts : TRUE
      ELSE IF NegativeNumber(s) THEN Positional
      ELSE IF \E i \in 1 .. Len(s) : s[i] = " " THEN Positional
      ELSE Arg("O", << >>, FALSE, << >>)

\* The reading of argument i of the command line av.
Class(av, i) ==
  LET dd == Find(av, DashDash)
  IN  IF dd # 0 /\ i > dd THEN Positional
      ELSE IF i = dd THEN Arg("-", << >>, FALSE, << >>)
      ELSE parse_optional(av[i])

\* The readings of the arguments, made once before any argument is taken.
Classes(av) == [i \in 1 .. Len(av) |-> Class(av, i)]

\* arg_strings_pattern at index i: "A", "O" or "-", and "$" past the end.
Kind(cl, i) == IF i > Len(cl) THEN "$" ELSE cl[i].k

\* '-*' of a positional's pattern from index i: the pattern holds one '-' at
\* most, every argument after '--' being an 'A'.
SkipDashes(cl, i) == IF Kind(cl, i) = "-" THEN i + 1 ELSE i

\* The parser's state: the index of the next argument, the number of
\* positionals taken, the namespace, whether there are extras, and the
\* status: "run" while parsing, then "ok" (the namespace is returned),
\* "usage" (parser.error: SystemExit(2)) or "exit" (help or version printed:
\* SystemExit(0)).
NewParse ==
  [i |-> 1, npos |-> 0, top_left |-> << >>, bot_right |-> << >>,
   zoom |-> DefaultZoom, extras |-> FALSE, status |-> "run"]

\* The empty list [], which is no string: the value _get_values yields when
\* the only argument string is '--', which it removes.
EmptyList == << "[]" >>

\* _get_values for the argument strings av[from .. at], av[at] the 'A'.
get_values(av, from, at) ==
  IF av[at] = DashDash /\ from = at THEN EmptyList ELSE av[at]

\* consume_positionals(st.i): top_left, bot_right and file ('?') take as
\* many of the positionals from st.i on as match; file is taken, with or
\* without an argument, together with bot_right.
consume_positionals(av, cl, st) ==
  LET a1 == SkipDashes(cl, st.i)
      e1 == SkipDashes(cl, a1 + 1)
      e2 == SkipDashes(cl, e1 + 1)
      b  == IF st.npos = 1 THEN e1 ELSE e2
      e3 == IF Kind(cl, b) = "A" THEN SkipDashes(cl, b + 1) ELSE b
  IN  IF st.npos = 3 \/ Kind(cl, a1) # "A" THEN st
      ELSE IF st.npos = 1
           THEN [st EXCEPT !.i = e3, !.npos = 3,
                           !.bot_right = get_values(av, st.i, a1)]
      ELSE IF Kind(cl, e1) # "A"
           THEN [st EXCEPT !.i = e1, !.npos = 1,
                           !.top_left = get_values(av, st.i, a1)]
      ELSE [st EXCEPT !.i = e3, !.npos = 3,
                      !.top_left = get_values(av, st.i, a1),
                      !.bot_right = get_values(av, e1, e1)]

\* The namespace after the option o has stored the argument v.  The URL
\* is not kept: the runs of the model are those whose URL template formats.
Store(st, o, v) ==
  IF o \in OptZoom
  THEN [st EXCEPT !.zoom = IF v = DashDash THEN EmptyList ELSE v]
  ELSE st

\* consume_optional(st.i) for the option o with explicit argument ex (if
\* has); help tells that -h precedes o in the same argument.  The actions
\* are taken once the whole argument is read, help first.
RECURSIVE take_optional(_, _, _, _, _, _, _)
take_optional(av, cl, st, o, has, ex, help) ==
  LET stored ==
        IF has THEN [Store(st, o, ex) EXCEPT !.i = st.i + 1]
        ELSE [Store(st, o, av[st.i + 1]) EXCEPT !.i = st.i + 2]
  IN  IF o = << >> THEN [st EXCEPT !.extras = TRUE, !.i = st.i + 1]
      ELSE IF TakesArg(o)
           THEN IF ~has /\ Kind(cl, st.i + 1) # "A"
                THEN [st EXCEPT !.status = "usage"]
                ELSE [stored EXCEPT !.status = IF help THEN "exit" ELSE "run"]
      ELSE IF ~has THEN [st EXCEPT !.status = "exit"]
      ELSE IF o[2] # "-" /\ ex # << >> /\ <<"-", ex[1]>> \in OptionStrings
           THEN take_optional(av, cl, st, <<"-", ex[1]>>, Len(ex) > 1, Tail(ex), TRUE)
      ELSE [st EXCEPT !.status = "usage"]

consume_optional(av, cl, st) ==
  take_optional(av, cl, st, cl[st.i].opt, cl[st.i].has, cl[st.i].ex, FALSE)

\* The end of _parse_known_args and of parse_args: the positionals after the
\* last option, the required arguments, the unrecognized arguments.
finish(av, cl, st) ==
  LET p == consume_positionals(av, cl, st)
  IN  [p EXCEPT !.status =
         IF p.npos < 3 \/ p.extras \/ p.i <= Len(av) THEN "usage" ELSE "ok"]

\* The loop of _parse_known_args: positionals and options in turn.
RECURSIVE parse_known_args(_, _, _)
parse_known_args(av, cl, st) ==
  LET opts == {j \in st.i .. Len(av) : Kind(cl, j) = "O"}
      next == CHOOSE j \in opts : \A q \in opts : j <= q
      p    == consume_positionals(av, cl, st)
      q    == IF st.i = next THEN st
              ELSE IF p.i > st.i THEN p
              ELSE [st EXCEPT !.i = next, !.extras = TRUE]
  IN  IF st.status # "run" THEN st
      ELSE IF opts = {} THEN finish(av, cl, st)
      ELSE IF st.i # next /\ p.i > st.i THEN parse_known_args(av, cl, q)
      ELSE parse_known_args(av, cl, consume_optional(av, cl, q))

\* parser.parse_args() of the command line av (sys.argv[1:]).
parse_args(av) ==
  LET cl == Classes(av)
  IN  IF \E i \in 1 .. Len(av) : cl[i].k = "E"
      THEN [NewParse EXCEPT !.status = "usage"]
      ELSE parse_known_args(av, cl, NewParse)

----------------------------------------------------------------------------
(* download_map_region(): lat_lon_to_tile_coords *)

\* lat * 10 for a latitude that is a whole number of tenths of a degree, the
\* grid SinDeg is tabulated on; a latitude off the grid has no value here.
DeciDeg(v) == CHOOSE l \in {(v.n * 10) \div v.d} : l * v.d = v.n * 10

\* np.sin(lat * np.pi / 180) in units of 1e-9, by latitude in tenths of a
\* degree, for the latitudes of the corners TopLefts and BotRights hold.
SinDeg ==
  [l \in {900, 850, 665, 7, 0, -7, -665, -850, -900} |->
     CASE l = 900 -> 1000000000 [] l = 850 -> 996194698 [] l = 665 -> 917060074
       [] l = 7 -> 12217001 [] l = 0 -> 0 [] l = -7 -> -12217001
       [] l = -665 -> -917060074 [] l = -850 -> -996194698
       [] l = -900 -> -1000000000]

\* The clamp bound 0.9999 in units of 1e-9.
SinClamp == 999900000

\* The denominator of the fixed-point y coordinate: a power of two, so that
\* int(y) and int(y * tile_size) are exact for every scale * tile_size
\* dividing it.
YDen == Pow(2, 20)

\* 0.5 - np.log((1 + siny) / (1 - siny)) / (4 * np.pi), as a numerator over
\* YDen truncated toward zero, by siny in units of 1e-9.
MercatorY ==
  [s \in {999900000, 996194698, 917060074, 12217001, 0, -12217001,
          -917060074, -996194698, -999900000} |->
     CASE s = 999900000 -> -302084 [] s = 996194698 -> 1717
       [] s = 917060074 -> 262240 [] s = 12217001 -> 522249
       [] s = 0 -> 524288 [] s = -12217001 -> 526326
       [] s = -917060074 -> 786335 [] s = -996194698 -> 1046858
       [] s = -999900000 -> 1350660]

\* lat_lon_to_tile_coords as it would be if x were scale * lon / 360, without
\* the offset 0.5 that puts longitude -180 at x = 0.
lat_lon_to_tile_coords_no_offset(lat, lon, scale) ==
  LET siny == Min(Max(SinDeg[DeciDeg(lat)], -SinClamp), SinClamp)
  IN  [x |-> [n |-> scale * lon.n, d |-> 360 * lon.d],
       y |-> [n |-> scale * MercatorY[siny], d |-> YDen]]

\* The projected point (x, y), each coordinate a rational n/d.
lat_lon_to_tile_coords(lat, lon, scale) ==
  LET siny == Min(Max(SinDeg[DeciDeg(lat)], -SinClamp), SinClamp)
  IN  [x |-> [n |-> scale * (180 * lon.d + lon.n), d |-> 360 * lon.d],
       y |-> [n |-> scale * MercatorY[siny], d |-> YDen]]

----------------------------------------------------------------------------
(* get_image_info(): the tile size of a decoded tile, or the fallback *)

\* A decoded tile is its shape [h, w, c]; c = 0 is a two-dimensional array
\* (a grayscale image has no channel axis).  None is the tile imdecode
\* could not decode.
None == [h |-> 0, w |-> 0, c |-> 0]

FallbackSize == 256

FallbackChannels == 1

image_info(tile) ==
  IF tile # None
  THEN [x |-> tile.w, y |-> tile.h, c |-> IF tile.c > 0 THEN tile.c ELSE 1]
  ELSE [x |-> FallbackSize, y |-> FallbackSize, c |-> FallbackChannels]

----------------------------------------------------------------------------
(* download_map_region(): the geometry of the canvas and of one tile *)

\* Lines 176-189: pixel and tile coordinates of the corners, the canvas size
\* and the number of tiles, from the projected corners and the tile size.
Geometry(tl, br, ts) ==
  LET tl_pixel_x == Trunc(tl.x.n * ts.x, tl.x.d)
      tl_pixel_y == Trunc(tl.y.n * ts.y, tl.y.d)
      br_pixel_x == Trunc(br.x.n * ts.x, br.x.d)
      br_pixel_y == Trunc(br.y.n * ts.y, br.y.d)
      tl_tile_x  == Trunc(tl.x.n, tl.x.d)
      tl_tile_y  == Trunc(tl.y.n, tl.y.d)
      br_tile_x  == Trunc(br.x.n, br.x.d)
      br_tile_y  == Trunc(br.y.n, br.y.d)
  IN  [tl_pixel_x |-> tl_pixel_x, tl_pixel_y |-> tl_pixel_y,
       tl_tile_x |-> tl_tile_x, tl_tile_y |-> tl_tile_y,
       br_tile_x |-> br_tile_x, br_tile_y |-> br_tile_y,
       img_w |-> Abs(tl_pixel_x - br_pixel_x),
       img_h |-> br_pixel_y - tl_pixel_y,
       tiles_total |-> (br_tile_x - tl_tile_x + 1) * (br_tile_y - tl_tile_y + 1)]

\* Lines 229-232: the tile's top-left pixel relative to the canvas.
tl_rel_x(g, ts, tile_x) == tile_x * ts.x - g.tl_pixel_x

\* tl_rel_y as it would be if it were computed from the first row of the
\* range instead of the thread's own row.
tl_rel_y_first_row(g, ts, tile_y) == g.tl_tile_y * ts.y - g.tl_pixel_y

tl_rel_y(g, ts, tile_y) == tile_y * ts.y - g.tl_pixel_y

\* Lines 229-244: where the tile goes on the canvas and how it is cropped.
Placement(g, ts, tile_x, tile_y) ==
  LET rx  == tl_rel_x(g, ts, tile_x)
      ry  == tl_rel_y(g, ts, tile_y)
      brx == rx + ts.x
      bry == ry + ts.y
  IN  [img_x_l |-> Max(0, rx), img_x_r |-> Min(g.img_w + 1, brx),
       img_y_l |-> Max(0, ry), img_y_r |-> Min(g.img_h + 1, bry),
       cr_x_l |-> Max(0, -rx), cr_x_r |-> ts.x + Min(0, g.img_w - brx),
       cr_y_l |-> Max(0, -ry), cr_y_r |-> ts.y + Min(0, g.img_h - bry)]

\* A numpy basic slice a[l:r] of an axis of length n: a negative bound counts
\* from the end, both bounds are clipped to 0..n, and the slice is lo..hi-1.
SliceBound(i, n) == IF i < 0 THEN Max(i + n, 0) ELSE Min(i, n)

Slice(l, r, n) ==
  [lo |-> SliceBound(l, n), hi |-> Max(SliceBound(l, n), SliceBound(r, n))]

SliceLen(s) == s.hi - s.lo

\* The canvas rows and columns that img[img_y_l:img_y_r, img_x_l:img_x_r]
\* selects.
DestY(g, ts, tile_y) ==
  LET p == Placement(g, ts, g.tl_tile_x, tile_y)
  IN  Slice(p.img_y_l, p.img_y_r, g.img_h)

DestX(g, ts, tile_x) ==
  LET p == Placement(g, ts, tile_x, g.tl_tile_y)
  IN  Slice(p.img_x_l, p.img_x_r, g.img_w)

\* The rows and columns of a decoded tile that tile[cr_y_l:cr_y_r,
\* cr_x_l:cr_x_r] selects.
SrcY(g, ts, tile_y, tile) ==
  LET p == Placement(g, ts, g.tl_tile_x, tile_y)
  IN  Slice(p.cr_y_l, p.cr_y_r, tile.h)

SrcX(g, ts, tile_x, tile) ==
  LET p == Placement(g, ts, tile_x, g.tl_tile_y)
  IN  Slice(p.cr_x_l, p.cr_x_r, tile.w)

----------------------------------------------------------------------------
(* The inputs of a run: the command line and the tile server *)

\* A bound of the model: the largest canvas (rows * columns * channels) of
\* an enumerated run.
MaxCells == 20

TopLefts ==
  { <<"6","6",".","5",",","-","9","0",".","0">>,      \* 66.5,-90.0
    <<"0",".","7",",","-","0",".","8">>,              \* 0.7,-0.8
    <<"9","0",".","0",",","-","9","0",".","0">>,      \* 90.0,-90.0
    <<"8","5",".","0"," ","-","4","5",".","0">>,      \* 85.0 -45.0
    <<"0",".","7",",","-","1","8","0",".","0">>,      \* 0.7,-180.0
    <<"6","6",".","5",",","-","9","0">>,              \* 66.5,-90
    <<"d",",","d">> }                                 \* d,d

BotRights ==
  { <<"-","6","6",".","5",",","9","0",".","0">>,      \* -66.5,90.0
    <<"-","0",".","7",",","0",".","8">>,              \* -0.7,0.8
    <<"S","-","6","6",".","5","W","-",".","8">>,      \* S-66.5W-.8
    <<"8","5",".","0",",","9","0",".","0">>,          \* 85.0,90.0
    <<"-","8","5",".","0",",","1","8","0",".","0">>,  \* -85.0,180.0
    <<"-","9","0",".","0",",","1","8","0",".","0">>,  \* -90.0,180.0
    <<"9","0",".","0",",","9","0",".","0">>,          \* 90.0,90.0
    <<"0",".","0",",","0",".","0",",","0",".","0">> } \* 0.0,0.0,0.0

Zooms ==
  { <<"0">>, <<"1">>, <<"2">>, <<"\t"," ","0","","\n">>, <<"-","1">>,
    <<"1",".","5">>, <<"x">> }

\* The command lines (sys.argv[1:]): the corners and -z ZOOM after them,
\* the same with the option first and '--' before the corners, the bottom
\* right corner left out, and -h.
CommandLines ==
  { <<tl, br, <<"-","z">>, z>> : tl \in TopLefts, br \in BotRights, z \in Zooms }
    \cup { << <<"-","z">>, z, DashDash, tl, br >> :
              tl \in TopLefts, br \in BotRights, z \in Zooms }
    \cup { <<tl>> : tl \in TopLefts }
    \cup { << <<"-","h">> >> }

\* What the server's tiles decode to: a 2 x 4 colour tile, a 4 x 4 grayscale.
TileFormats == { [h |-> 4, w |-> 2, c |-> 3], [h |-> 4, w |-> 4, c |-> 0] }

\* The outcome of one GET + imdecode: a decoded tile, a body imdecode
\* returns None for (an error page, a corrupt image), or requests.get
\* raising (the server cannot be reached).
Replies == {"tile", "none", "raise"}

\* The outcome of cv2.imwrite: the file is written, imwrite returns False
\* (the path cannot be written), or it raises (no encoder for the extension).
EncodeResults == {"written", "false", "raise"}

----------------------------------------------------------------------------
(* State *)

VARIABLES
  argv,          \* sys.argv[1:]: the command line, a tuple of strings
  server,        \* the tile format the server delivers
  probe_reply,   \* the server's answer to the probe request
  pc,            \* where main() / download_map_region() is
  args,          \* lat1, lon1, lat2, lon2, zoom once parsed
  tile_size,     \* tile_size_x, tile_size_y, tile_channels
  geo,           \* the locals of lines 176-189
  tiles_current, \* self.tiles_current
  bar,           \* self.bar: maxval, the last value, the number of calls of
                 \* line 248, and whether the bar is unbound ("none"), made
                 \* ("new"), started or finished
  img,           \* the canvas: (y, x, channel) -> value
  threads,       \* one build_row thread per tile row
  next_row,      \* the loop variable of the start loop and of the join loop
  http,          \* the GET requests issued so far, a bag
  encoded,       \* the outcome of cv2.imwrite, "no" before it
  saved,         \* the canvas cv2.imwrite was given
  out,           \* stdout's last line and main's return value
  reply,         \* history: the server's answer per tile of the range
  writers        \* history: per canvas cell, the rows that wrote it

vars == <<argv, server, probe_reply, pc, args, tile_size, geo, tiles_current,
          bar, img, threads, next_row, http, encoded, saved, out, reply,
          writers>>

inputs == <<argv, server, probe_reply>>

----------------------------------------------------------------------------
(* main(): lines 285-290, and download_map_region() up to the probe *)

\* 1 << zoom raises ValueError for a negative zoom.
ShiftOk(zoom) == zoom >= 0

\* Lines 287-290 and 167, for the namespace a: every conversion before the
\* first request succeeds.
ArgsOk(a) ==
  /\ lat_long(a.top_left).ok
  /\ lat_long(a.bot_right).ok
  /\ IntOk(a.zoom)
  /\ ShiftOk(int(a.zoom))

ParsedArgs(a) ==
  [lat1 |-> lat_long(a.top_left).lat, lon1 |-> lat_long(a.top_left).lon,
   lat2 |-> lat_long(a.bot_right).lat, lon2 |-> lat_long(a.bot_right).lon,
   zoom |-> int(a.zoom)]

\* Lines 285-290 and 167: the command line av is parsed and converted.
Accepted(av) == LET ns == parse_args(av) IN ns.status = "ok" /\ ArgsOk(ns)

NoArgs ==
  [lat1 |-> [n |-> 0, d |-> 1], lon1 |-> [n |-> 0, d |-> 1],
   lat2 |-> [n |-> 0, d |-> 1], lon2 |-> [n |-> 0, d |-> 1], zoom |-> 0]

\* Lines 167-171.
TopLeft(a) == lat_lon_to_tile_coords(a.lat1, a.lon1, Pow(2, a.zoom))

BottomRight(a) == lat_lon_to_tile_coords(a.lat2, a.lon2, Pow(2, a.zoom))

\* The tile the probe asks for (line 174).
ProbeTile(a) ==
  [x |-> Trunc(TopLeft(a).x.n, TopLeft(a).x.d),
   y |-> Trunc(TopLeft(a).y.n, TopLeft(a).y.d), z |-> a.zoom]

NoSize == [x |-> 0, y |-> 0, c |-> 0]

NoGeo == Geometry([x |-> [n |-> 0, d |-> 1], y |-> [n |-> 0, d |-> 1]],
                  [x |-> [n |-> 0, d |-> 1], y |-> [n |-> 0, d |-> 1]], NoSize)

\* The canvas cells of np.zeros((img_h, img_w, tile_channels)).
Cells(g, ts) == (0 .. g.img_h - 1) \X (0 .. g.img_w - 1) \X (0 .. ts.c - 1)

\* The value of a zero-filled cell; a copied cell holds the tile and the
\* tile pixel it comes from, <<tile_x, tile_y, row, column, channel>>.
Zero == << >>

Rows(g) == g.tl_tile_y .. g.br_tile_y

Cols(g) == g.tl_tile_x .. g.br_tile_x

\* The runs the model enumerates: those whose canvas has at most MaxCells
\* cells.
CanvasFits(av, fmt, pr) ==
  LET ns == parse_args(av)
      ts == image_info(IF pr = "tile" THEN fmt ELSE None)
      a  == ParsedArgs(ns)
      g  == Geometry(TopLeft(a), BottomRight(a), ts)
  IN  IF ns.status # "ok" \/ ~ArgsOk(ns) \/ pr = "raise" THEN TRUE
      ELSE g.img_h * g.img_w * ts.c <= MaxCells

\* self.bar before line 192 has bound it.
NoBar == [maxval |-> 0, value |-> 0, updates |-> 0, state |-> "none"]

\* Line 192, progressbar.ProgressBar(maxval=tiles_total), for a maxval that
\* is not negative.
NewBar(maxval) == [maxval |-> maxval, value |-> 0, updates |-> 0, state |-> "new"]

Init ==
  /\ argv \in CommandLines
  /\ server \in TileFormats
  /\ probe_reply \in Replies
  /\ CanvasFits(argv, server, probe_reply)
  /\ pc = "parse"
  /\ args = NoArgs
  /\ tile_size = NoSize
  /\ geo = NoGeo
  /\ tiles_current = 0
  /\ bar = NoBar
  /\ img = << >>
  /\ threads = << >>
  /\ next_row = 0
  /\ http = EmptyBag
  /\ encoded = "no"
  /\ saved = << >>
  /\ out = [line |-> "", exit |-> -1]
  /\ reply = << >>
  /\ writers = << >>

\* main()'s except clause: print the error, return 1.
Fail == out' = [line |-> "Error", exit |-> 1] /\ pc' = "exit"

\* parser.error(): the usage message, SystemExit(2), which main()'s except
\* clause does not catch.
Usage == out' = [line |-> "usage", exit |-> 2] /\ pc' = "exit"

\* The help or the version is printed: SystemExit(0).
Help == out' = [line |-> "help", exit |-> 0] /\ pc' = "exit"

\* Lines 285-290 and 167-171: parse the command line, project the corners.
Main_Parse ==
  /\ pc = "parse"
  /\ LET ns == parse_args(argv)
     IN  IF ns.status = "usage" THEN Usage /\ args' = args
         ELSE IF ns.status = "exit" THEN Help /\ args' = args
         ELSE IF ArgsOk(ns)
              THEN /\ args' = ParsedArgs(ns)
                   /\ pc' = "probe"
                   /\ out' = out
              ELSE /\ Fail
                   /\ args' = args
  /\ UNCHANGED <<inputs, tile_size, geo, tiles_current, bar, img, threads,
                 next_row, http, encoded, saved, reply, writers>>

\* Line 174, get_image_info(): one GET for the top-left tile.
Probe ==
  /\ pc = "probe"
  /\ http' = http (+) SetToBag({[by |-> "probe", x |-> ProbeTile(args).x,
                                 y |-> ProbeTile(args).y, z |-> args.zoom]})
  /\ IF probe_reply = "raise"
     THEN /\ Fail
          /\ tile_size' = tile_size
     ELSE /\ tile_size' = image_info(IF probe_reply = "tile" THEN server ELSE None)
          /\ pc' = "plan"
          /\ out' = out
  /\ UNCHANGED <<inputs, args, geo, tiles_current, bar, img, threads,
                 next_row, encoded, saved, reply, writers>>

\* The thread object of one row before thread.start().
NewThread(g) ==
  [pc |-> "new", tile_x |-> g.tl_tile_x, tile |-> None, reg |-> 0,
   incs |-> 0, reported |-> 0, done |-> 0]

\* Lines 176-204 and 252-253: the geometry, the counters, the progress bar
\* and the canvas, then bar.start().  ProgressBar(maxval=tiles_total) raises
\* ValueError at line 192 for a negative maxval (a maximum below the minimum
\* 0): self.bar is not bound and nothing after line 192 runs.  np.zeros
\* raises ValueError at line 204 for a negative dimension, the bar made but
\* not started.
Plan ==
  /\ pc = "plan"
  /\ LET g == Geometry(TopLeft(args), BottomRight(args), tile_size)
     IN  /\ geo' = g
         /\ tiles_current' = 0
         /\ IF g.tiles_total < 0
            THEN /\ Fail
                 /\ UNCHANGED <<bar, img, threads, next_row, reply, writers>>
            ELSE IF g.img_h < 0
            THEN /\ bar' = NewBar(g.tiles_total)
                 /\ Fail
                 /\ UNCHANGED <<img, threads, next_row, reply, writers>>
            ELSE /\ bar' = [NewBar(g.tiles_total) EXCEPT !.state = "started"]
                 /\ img' = [c \in Cells(g, tile_size) |-> Zero]
                 /\ writers' = [c \in Cells(g, tile_size) |-> {}]
                 /\ threads' = [r \in Rows(g) |-> NewThread(g)]
                 /\ reply' = [t \in Cols(g) \X Rows(g) |-> "unasked"]
                 /\ next_row' = g.tl_tile_y
                 /\ pc' = "start"
                 /\ out' = out
  /\ UNCHANGED <<inputs, args, tile_size, http, encoded, saved>>

----------------------------------------------------------------------------
(* build_row(tile_y): one thread per tile row *)

\* Line 250, img[img_y_l:img_y_r, img_x_l:img_x_r] = tile[cr_y_l:cr_y_r,
\* cr_x_l:cr_x_r]: numpy broadcasts the right side to the shape of the left
\* side, axes aligned from the last, and raises ValueError when an axis of
\* the right side is neither 1 nor the left side's.
CopyFits(g, ts, tile_x, tile_y, tile) ==
  LET dh == SliceLen(DestY(g, ts, tile_y))
      dw == SliceLen(DestX(g, ts, tile_x))
      sh == SliceLen(SrcY(g, ts, tile_y, tile))
      sw == SliceLen(SrcX(g, ts, tile_x, tile))
  IN  IF tile.c = 0
      THEN sh \in {dw, 1} /\ sw \in {ts.c, 1}
      ELSE sh \in {dh, 1} /\ sw \in {dw, 1} /\ tile.c \in {ts.c, 1}

\* The copy's destination as it would be if it took every canvas row of the
\* tile's columns instead of the rows of the tile's own band.
DestCellsAllRows(g, ts, tile_x, tile_y) ==
  (0 .. g.img_h - 1)
    \X (DestX(g, ts, tile_x).lo .. DestX(g, ts, tile_x).hi - 1)
    \X (0 .. ts.c - 1)

\* The canvas cells the copy assigns.
DestCells(g, ts, tile_x, tile_y) ==
  (DestY(g, ts, tile_y).lo .. DestY(g, ts, tile_y).hi - 1)
    \X (DestX(g, ts, tile_x).lo .. DestX(g, ts, tile_x).hi - 1)
    \X (0 .. ts.c - 1)

\* The tile pixel that lands in canvas cell <<y, x, c>>.
SourcePixel(g, ts, tile_x, tile_y, tile, cell) ==
  LET dy == DestY(g, ts, tile_y)
      dx == DestX(g, ts, tile_x)
      sy == SrcY(g, ts, tile_y, tile)
      sx == SrcX(g, ts, tile_x, tile)
      y  == cell[1] - dy.lo
      x  == cell[2] - dx.lo
  IN  IF tile.c = 0
      THEN <<tile_x, tile_y,
             sy.lo + (IF SliceLen(sy) = 1 THEN 0 ELSE x),
             sx.lo + (IF SliceLen(sx) = 1 THEN 0 ELSE cell[3]), 0>>
      ELSE <<tile_x, tile_y,
             sy.lo + (IF SliceLen(sy) = 1 THEN 0 ELSE y),
             sx.lo + (IF SliceLen(sx) = 1 THEN 0 ELSE x),
             IF tile.c = 1 THEN 0 ELSE cell[3]>>

CopyTile(canvas, g, ts, tile_x, tile_y, tile) ==
  [cell \in DOMAIN canvas |->
     IF cell \in DestCells(g, ts, tile_x, tile_y)
     THEN SourcePixel(g, ts, tile_x, tile_y, tile, cell)
     ELSE canvas[cell]]

\* The end of one iteration of the loop of line 222.
NextTile(t, g) ==
  [t EXCEPT !.tile_x = @ + 1, !.done = @ + 1, !.tile = None,
            !.pc = IF t.tile_x + 1 > g.br_tile_x THEN "done" ELSE "get"]

Pending(r, p) == r \in DOMAIN threads /\ threads[r].pc = p

\* The GET request a row thread issues for tile (x, y).
RowRequest(x, y) == [by |-> "row", x |-> x, y |-> y, z |-> args.zoom]

\* Row thread r is inside requests.get (line 223): its request is out and
\* the answer has not come.
Waiting(r) ==
  Pending(r, "get") /\ BagIn(RowRequest(threads[r].tile_x, r), http)

\* Line 223, requests.get: the request goes out.  The thread then waits
\* for the answer while the other threads run.
Send(r) ==
  /\ Pending(r, "get")
  /\ ~Waiting(r)
  /\ http' = http (+) SetToBag({RowRequest(threads[r].tile_x, r)})
  /\ UNCHANGED <<inputs, pc, args, tile_size, geo, tiles_current, bar, img,
                 threads, next_row, encoded, saved, out, reply, writers>>

\* Lines 223-227: requests.get returns or raises, and the body is decoded.
\* An exception of requests.get ends the thread; a body that does not
\* decode skips the tile.
Receive(r) ==
  /\ Waiting(r)
  /\ \E rp \in Replies :
       /\ reply' = [reply EXCEPT ![<<threads[r].tile_x, r>>] = rp]
       /\ threads' =
            [threads EXCEPT ![r] =
               CASE rp = "raise" -> [@ EXCEPT !.pc = "crashed"]
                 [] rp = "none"  -> NextTile(@, geo)
                 [] rp = "tile"  -> [@ EXCEPT !.tile = server, !.pc = "read"]]
  /\ UNCHANGED <<inputs, pc, args, tile_size, geo, tiles_current, bar, img,
                 next_row, http, encoded, saved, out, writers>>

\* Line 246, self.tiles_current += 1: the load of the attribute...
Read(r) ==
  /\ Pending(r, "read")
  /\ threads' = [threads EXCEPT ![r].reg = tiles_current, ![r].pc = "write"]
  /\ UNCHANGED <<inputs, pc, args, tile_size, geo, tiles_current, bar, img,
                 next_row, http, encoded, saved, out, reply, writers>>

\* The store of line 246 as it would be if the increment were 2.
WriteTwo(r) ==
  /\ Pending(r, "write")
  /\ tiles_current' = threads[r].reg + 2
  /\ threads' = [threads EXCEPT ![r].incs = @ + 1, ![r].pc = "load"]
  /\ UNCHANGED <<inputs, pc, args, tile_size, geo, bar, img, next_row, http,
                 encoded, saved, out, reply, writers>>

\* ... and the store of the sum.
Write(r) ==
  /\ Pending(r, "write")
  /\ tiles_current' = threads[r].reg + 1
  /\ threads' = [threads EXCEPT ![r].incs = @ + 1, ![r].pc = "load"]
  /\ UNCHANGED <<inputs, pc, args, tile_size, geo, bar, img, next_row, http,
                 encoded, saved, out, reply, writers>>

\* Line 248, self.bar.update(self.tiles_current): the argument is read...
Load(r) ==
  /\ Pending(r, "load")
  /\ threads' = [threads EXCEPT ![r].reg = tiles_current, ![r].pc = "update"]
  /\ UNCHANGED <<inputs, pc, args, tile_size, geo, tiles_current, bar, img,
                 next_row, http, encoded, saved, out, reply, writers>>

\* ... and the bar takes it; update() raises ValueError for a value outside
\* 0 .. maxval, which ends the row thread.
Update(r) ==
  /\ Pending(r, "update")
  /\ IF threads[r].reg \in 0 .. bar.maxval
     THEN /\ bar' = [bar EXCEPT !.value = threads[r].reg, !.updates = @ + 1]
          /\ threads' = [threads EXCEPT ![r].reported = @ + 1, ![r].pc = "copy"]
     ELSE /\ bar' = bar
          /\ threads' = [threads EXCEPT ![r].pc = "crashed"]
  /\ UNCHANGED <<inputs, pc, args, tile_size, geo, tiles_current, img,
                 next_row, http, encoded, saved, out, reply, writers>>

\* Line 250: the copy into the canvas, or the ValueError that ends the thread.
Copy(r) ==
  /\ Pending(r, "copy")
  /\ LET t == threads[r]
     IN  IF CopyFits(geo, tile_size, t.tile_x, r, t.tile)
         THEN /\ img' = CopyTile(img, geo, tile_size, t.tile_x, r, t.tile)
              /\ writers' =
                   [cell \in DOMAIN writers |->
                      IF cell \in DestCells(geo, tile_size, t.tile_x, r)
                      THEN writers[cell] \cup {r} ELSE writers[cell]]
              /\ threads' = [threads EXCEPT ![r] = NextTile(@, geo)]
         ELSE /\ threads' = [threads EXCEPT ![r].pc = "crashed"]
              /\ UNCHANGED <<img, writers>>
  /\ UNCHANGED <<inputs, pc, args, tile_size, geo, tiles_current, bar,
                 next_row, http, encoded, saved, out, reply>>

----------------------------------------------------------------------------
(* download_map_region(): lines 254-269, and main()'s return *)

\* Lines 255-258: thread.start() for the next row.
Start ==
  /\ pc = "start"
  /\ threads' = [threads EXCEPT ![next_row].pc =
                   IF geo.tl_tile_x > geo.br_tile_x THEN "done" ELSE "get"]
  /\ IF next_row < geo.br_tile_y
     THEN next_row' = next_row + 1 /\ pc' = pc
     ELSE next_row' = geo.tl_tile_y /\ pc' = "join"
  /\ UNCHANGED <<inputs, args, tile_size, geo, tiles_current, bar, img, http,
                 encoded, saved, out, reply, writers>>

\* thread.join() as it would be if it returned for a thread still running.
JoinedNoWait(t) == t.pc # "new"

\* thread.join() returns once the thread has ended, normally or not.
Joined(t) == t.pc \in {"done", "crashed"}

\* Lines 259-261: thread.join() for the next row; after the last,
\* bar.finish(), which gives the bar its maxval (finish() is update(maxval)).
Join ==
  /\ pc = "join"
  /\ Joined(threads[next_row])
  /\ IF next_row < geo.br_tile_y
     THEN next_row' = next_row + 1 /\ pc' = pc /\ bar' = bar
     ELSE /\ next_row' = next_row
          /\ pc' = "encode"
          /\ bar' = [bar EXCEPT !.value = bar.maxval, !.state = "finished"]
  /\ UNCHANGED <<inputs, args, tile_size, geo, tiles_current, img,
                 threads, http, encoded, saved, out, reply, writers>>

\* Line 265: cv2.imwrite(filename, img).
Encode ==
  /\ pc = "encode"
  /\ \E res \in EncodeResults : encoded' = res
  /\ saved' = img
  /\ pc' = "return"
  /\ UNCHANGED <<inputs, args, tile_size, geo, tiles_current, bar, img,
                 threads, next_row, http, out, reply, writers>>

\* Lines 266-269 and 291: the except clause prints the error and returns,
\* otherwise 'Done.' is printed; main() returns 0 either way.
Return ==
  /\ pc = "return"
  /\ out' = [line |-> IF encoded = "raise" THEN "Error" ELSE "Done.",
             exit |-> 0]
  /\ pc' = "exit"
  /\ UNCHANGED <<inputs, args, tile_size, geo, tiles_current, bar, img,
                 threads, next_row, http, encoded, saved, reply, writers>>

\* A step of some row thread.
RowSend == \E r \in DOMAIN threads : Send(r)

RowReceive == \E r \in DOMAIN threads : Receive(r)

RowRead == \E r \in DOMAIN threads : Read(r)

RowWrite == \E r \in DOMAIN threads : Write(r)

RowLoad == \E r \in DOMAIN threads : Load(r)

RowUpdate == \E r \in DOMAIN threads : Update(r)

RowCopy == \E r \in DOMAIN threads : Copy(r)

Next ==
  \/ Main_Parse
  \/ Probe
  \/ Plan
  \/ Start
  \/ Join
  \/ Encode
  \/ Return
  \/ RowSend
  \/ RowReceive
  \/ RowRead
  \/ RowWrite
  \/ RowLoad
  \/ RowUpdate
  \/ RowCopy

Spec == Init /\ [][Next]_vars

\* A fair scheduler, from the start of the row threads on: the main thread
\* takes its next step of lines 259-269 and every row thread its next step
\* when it stays able to.  Whether an answer comes is the server's doing,
\* not the scheduler's: requests.get is called without a timeout and
\* nothing makes it return.
Fairness ==
  /\ WF_vars(Join) /\ WF_vars(Encode) /\ WF_vars(Return)
  /\ WF_vars(RowSend) /\ WF_vars(RowRead) /\ WF_vars(RowWrite)
  /\ WF_vars(RowLoad) /\ WF_vars(RowUpdate) /\ WF_vars(RowCopy)

FairSpec == Spec /\ Fairness

----------------------------------------------------------------------------
(* Vocabulary of the properties *)

\* The canvas is allocated and the row threads exist.
Planned == pc \in {"start", "join", "encode", "return"} \/ encoded # "no"

\* Two index intervals lo..hi-1 share no index.
Disjoint(a, b) == a.hi <= b.lo \/ b.hi <= a.lo \/ a.lo >= a.hi \/ b.lo >= b.hi

Within(i, s) == s.lo <= i /\ i < s.hi

RECURSIVE SumIncs(_)
SumIncs(R) ==
  IF R = {} THEN 0
  ELSE LET r == CHOOSE q \in R : TRUE
       IN  threads[r].incs + SumIncs(R \ {r})

\* The tiles of the range whose copy has been done as line 250 does it.
Copied(t) ==
  \A cell \in DestCells(geo, tile_size, t[1], t[2]) :
    img[cell] = SourcePixel(geo, tile_size, t[1], t[2], server, cell)

Blank(t) ==
  \A cell \in DestCells(geo, tile_size, t[1], t[2]) : img[cell] = Zero

\* The server's tiles all decode to the shape the probe found, with a
\* channel axis.
UniformColour == server.c > 0 /\ tile_size = image_info(server)

\* A rational a is at most a rational b (positive denominators).
Leq(a, b) == a.n * b.d <= b.n * a.d

\* The bottom-right corner is south-east of the top-left corner.
RightOrder == Leq(args.lat2, args.lat1) /\ Leq(args.lon1, args.lon2)

\* A corner string in which findall does not find exactly two decimals.
MalformedCorner(s) ==
  \/ Len(findall(s)) # 2
  \/ \E i \in 1 .. Len(findall(s)) : ~FloatOk(findall(s)[i])

\* A zoom that cannot be read as a number: it holds no digit, or a
\* character that is no digit, sign, whitespace or underscore.
NonNumericZoom(z) ==
  \/ \A i \in 1 .. Len(z) : z[i] \notin Digits
  \/ \E i \in 1 .. Len(z) : z[i] \notin Digits \cup Signs \cup Whitespace \cup {"_"}

\* The command line is one argparse takes, and a corner or the zoom it
\* yields is malformed.
InputError ==
  LET ns == parse_args(argv)
  IN  /\ ns.status = "ok"
      /\ \/ MalformedCorner(ns.top_left)
         \/ MalformedCorner(ns.bot_right)
         \/ NonNumericZoom(ns.zoom)

\* The command line is one argparse rejects with a usage error.
Rejected == parse_args(argv).status = "usage"

\* The server answers the probe and the row thread alike for the tile both
\* ask for.
DeterministicServer ==
  reply[<<geo.tl_tile_x, geo.tl_tile_y>>] \in {"unasked", probe_reply}

\* A tile whose answer ends its row thread: the GET raises, or the decoded
\* tile does not fit the slice it is assigned to.
Stops(t) ==
  \/ reply[t] = "raise"
  \/ reply[t] = "tile" /\ ~CopyFits(geo, tile_size, t[1], t[2], server)

\* The canvas after build_row(r) has run alone over the tiles x .. br_tile_x
\* of its row, by the server's answers.
RECURSIVE RowResult(_, _, _)
RowResult(canvas, r, x) ==
  IF x > geo.br_tile_x \/ Stops(<<x, r>>) \/ reply[<<x, r>>] = "unasked"
  THEN canvas
  ELSE IF reply[<<x, r>>] = "none" THEN RowResult(canvas, r, x + 1)
  ELSE RowResult(CopyTile(canvas, geo, tile_size, x, r, server), r, x + 1)

\* The canvas after the rows r .. br_tile_y have run one after the other.
RECURSIVE Stitched(_, _)
Stitched(canvas, r) ==
  IF r > geo.br_tile_y THEN canvas
  ELSE Stitched(RowResult(canvas, r, geo.tl_tile_x), r + 1)

\* The tiles a row asks for are those no stopping tile precedes.
AskedByAnswers ==
  \A t \in DOMAIN reply :
    reply[t] # "unasked" <=>
      \A x \in geo.tl_tile_x .. t[1] - 1 : ~Stops(<<x, t[2]>>)

\* lines 170-171 have run: the corners are projected.
Projected == Accepted(argv) /\ pc # "parse"

\* The projected corners of the run.
Corners == {TopLeft(args), BottomRight(args)}

\* The rational v lies in [0, s].
InRange(v, s) == 0 <= v.n /\ v.n <= s * v.d

\* |lat| <= deg degrees.
LatWithin(lat, deg) == -deg * lat.d <= lat.n /\ lat.n <= deg * lat.d

\* The tiles build_row has decoded, so that lines 229-244 have run for them.
Decoded == {t \in DOMAIN reply : reply[t] = "tile"}

\* The tile's band of pixels has no pixel in common with the canvas.
OutsideCanvas(t) ==
  \/ tl_rel_x(geo, tile_size, t[1]) >= geo.img_w
  \/ tl_rel_x(geo, tile_size, t[1]) + tile_size.x <= 0
  \/ tl_rel_y(geo, tile_size, t[2]) >= geo.img_h
  \/ tl_rel_y(geo, tile_size, t[2]) + tile_size.y <= 0

\* The tiles of row y requested so far.
Requested(y) == {x \in Cols(geo) : BagIn(RowRequest(x, y), http)}

\* floor(n/d) for d > 0.
Floor(n, d) == n \div d

\* The probe requests issued so far.
ProbeRequests == {q \in BagToSet(http) : q.by = "probe"}

\* get_image_info has been called (line 174).
Probed == Accepted(argv) /\ pc \notin {"parse", "probe"}

\* Exactly one probe request has been issued, for tile (x, y) at the run's
\* zoom.
OneProbeFor(x, y) ==
  /\ ProbeRequests = {[by |-> "probe", x |-> x, y |-> y, z |-> args.zoom]}
  /\ \A q \in ProbeRequests : CopiesIn(q, http) = 1

\* The tile size is the one the probe's answer yields, and the geometry and
\* the canvas are built on it.
TileSizeFrozen ==
  /\ Probed /\ out.exit # 1 =>
       tile_size = image_info(IF probe_reply = "tile" THEN server ELSE None)
  /\ Planned =>
       /\ geo = Geometry(TopLeft(args), BottomRight(args), tile_size)
       /\ DOMAIN img = Cells(geo, tile_size)

\* Every HTTP request of a row thread eventually returns, with a body or
\* with a failure.
RequestsReturn == WF_vars(RowReceive)

\* Every row thread has gone through every tile of its row and ended.
RowsComplete ==
  \A r \in DOMAIN threads :
    threads[r].pc = "done" /\ threads[r].done = Cardinality(Cols(geo))

\* The server's tiles decode to a size or a channel count other than the
\* probed tile size.
Mismatched == Planned /\ tile_size # image_info(server)

\* Row thread r was ended by the copy of a decoded tile (line 250 raising),
\* after the bar had taken the tile's report.
CrashedInCopy(r) ==
  /\ threads[r].pc = "crashed" /\ threads[r].tile # None
  /\ threads[r].incs = threads[r].reported

\* Lines 189-190 have run: tiles_total and tiles_current are set.  The bar
\* need not exist: line 192 raises for a negative tiles_total.
Counting == Probed /\ probe_reply # "raise" /\ pc # "plan"

\* tiles_current lies in 0 .. tiles_total; the bar, once line 192 has made
\* it, has the maxval tiles_total and a value in 0 .. tiles_total; and every
\* value that is about to be given to the bar is tiles_total at most.
CounterBounded ==
  /\ 0 <= tiles_current /\ tiles_current <= geo.tiles_total
  /\ bar.state # "none" =>
       /\ bar.maxval = geo.tiles_total
       /\ 0 <= bar.value /\ bar.value <= geo.tiles_total
  /\ \A r \in DOMAIN threads :
       threads[r].pc = "update" => threads[r].reg <= geo.tiles_total

----------------------------------------------------------------------------
(* Properties *)

\* C1: no canvas cell is written by two different row threads, and the
\* canvas rows that two distinct tile rows assign to are disjoint.
C1_RowsDisjoint ==
  Planned =>
    /\ \A cell \in DOMAIN writers : Cardinality(writers[cell]) <= 1
    /\ \A y1, y2 \in Rows(geo) :
         y1 # y2 => Disjoint(DestY(geo, tile_size, y1), DestY(geo, tile_size, y2))

\* C1's case: two different rows have each written canvas cells.
C1_Witness ==
  \E c1, c2 \in DOMAIN writers :
    writers[c1] # {} /\ writers[c2] # {} /\ writers[c1] # writers[c2]

\* C2: once every row thread has ended, tiles_current is the number of
\* increments the row threads performed.
C2_NoLostUpdate ==
  pc = "encode" => tiles_current = SumIncs(DOMAIN threads)

\* C3: cv2.imwrite is called only when every row thread has ended, and the
\* canvas does not change once it has been handed over.
C3_EncodeAfterJoin ==
  (pc = "encode" \/ encoded # "no") =>
    /\ \A r \in DOMAIN threads : threads[r].pc \in {"done", "crashed"}
    /\ (encoded # "no" => img = saved)

\* C3's case: the canvas of a run of two or more rows, tiles copied into it,
\* has been handed to imwrite.
C3_Witness ==
  /\ encoded = "written"
  /\ Cardinality(DOMAIN threads) >= 2
  /\ \E c1, c2 \in DOMAIN writers :
       writers[c1] # {} /\ writers[c2] # {} /\ writers[c1] # writers[c2]

\* C4: when exactly one tile of the range failed (on a server of uniform
\* colour tiles), every other tile has been fetched and copied, and the
\* failed tile's region is zero, when the canvas goes to the encoder.
C4_FailedTileIsolated ==
  (pc = "encode" /\ UniformColour) =>
    LET failed == {t \in DOMAIN reply : reply[t] \in {"none", "raise"}}
    IN  Cardinality(failed) = 1 =>
          /\ \A t \in failed : Blank(t)
          /\ \A t \in DOMAIN reply \ failed : reply[t] = "tile" /\ Copied(t)

\* C5: a row thread has reported one unit of progress for every tile it has
\* finished, decoded or not; so the row threads have called bar.update
\* tiles_total times when all of them have finished.
C5_ProgressPerTile ==
  /\ \A r \in DOMAIN threads :
       threads[r].pc \in {"get", "done"} => threads[r].reported = threads[r].done
  /\ (pc = "encode" /\ (\A r \in DOMAIN threads : threads[r].pc = "done")
        => bar.updates = geo.tiles_total)

\* C6: the values bar.update receives never decrease.
C6_ProgressMonotonic == [][bar'.value >= bar.value]_vars

\* C7: after a probe that failed to fetch or to decode, the run goes on with
\* the tile size (256, 256, 1), which the geometry and the canvas use.
C7_ProbeFallback ==
  (probe_reply # "tile" /\ http # EmptyBag) =>
    /\ tile_size = [x |-> 256, y |-> 256, c |-> 1]
    /\ Planned =>
         /\ geo = Geometry(TopLeft(args), BottomRight(args),
                           [x |-> 256, y |-> 256, c |-> 1])
         /\ DOMAIN img = (0 .. geo.img_h - 1) \X (0 .. geo.img_w - 1) \X {0}

\* C8: a run whose imwrite failed ends with a non-zero status and without
\* 'Done.'.
C8_EncodeFailureFatal ==
  (pc = "exit" /\ encoded \in {"false", "raise"}) =>
    out.exit # 0 /\ out.line # "Done."

\* C9: a run with a malformed corner or a non-numeric zoom issues no request
\* and ends with status 1; so does, with status 2, a run whose command line
\* argparse rejects.
C9_InputErrorsFailFast ==
  /\ InputError =>
       /\ http = EmptyBag
       /\ pc \in {"parse", "exit"}
       /\ (pc = "exit" => out.exit = 1)
  /\ Rejected =>
       /\ http = EmptyBag
       /\ pc \in {"parse", "exit"}
       /\ (pc = "exit" => out.exit = 2)

\* C9's case: a run with an input error has ended.
C9_Witness == InputError /\ pc = "exit" /\ out.exit = 1

\* C10: with the corners in the right order, every canvas pixel lies in
\* the destination rectangle of exactly one tile of the range.
C10_ExactCover ==
  (Planned /\ RightOrder) =>
    \A y \in 0 .. geo.img_h - 1, x \in 0 .. geo.img_w - 1 :
      Cardinality({t \in Cols(geo) \X Rows(geo) :
                     /\ Within(y, DestY(geo, tile_size, t[2]))
                     /\ Within(x, DestX(geo, tile_size, t[1]))}) = 1

\* C11: with a server that answers the same for the same tile, the canvas
\* handed to the encoder is a function of the inputs and of the server's
\* answers alone: it is the canvas of the rows run one after the other, and
\* the tiles asked for are determined by the answers, in every interleaving.
C11_Deterministic ==
  ((pc = "encode" \/ encoded # "no") /\ DeterministicServer) =>
    /\ AskedByAnswers
    /\ img = Stitched([c \in Cells(geo, tile_size) |-> Zero], geo.tl_tile_y)
    /\ (encoded # "no" => saved = img)

\* C11's case: a canvas two rows have written, one tile of the range not
\* decoded, has been handed to the encoder.
C11_Witness ==
  /\ encoded # "no" /\ DeterministicServer
  /\ \E t \in DOMAIN reply : reply[t] = "none"
  /\ \E r1, r2 \in DOMAIN threads :
       /\ r1 # r2
       /\ \E c1, c2 \in DOMAIN writers : writers[c1] = {r1} /\ writers[c2] = {r2}

\* C12 as stated: for latitude in [-90, 90], longitude in [-180, 180] and
\* zoom >= 0, lat_lon_to_tile_coords returns x in [0, 2^zoom] and y in
\* [0, 2^zoom].
C12_ProjectionInRange ==
  Projected =>
    \A p \in Corners :
      InRange(p.x, Pow(2, args.zoom)) /\ InRange(p.y, Pow(2, args.zoom))

\* C12 amended: x is in [0, 2^zoom]; y is in [0, 2^zoom] for a latitude of
\* at most 85 degrees either side of the equator; for every latitude y is
\* between -0.29 * 2^zoom and 1.29 * 2^zoom, which bound the values at the
\* clamp.
C12_ProjectionInRangeAmended ==
  Projected =>
    /\ \A p \in Corners :
         /\ InRange(p.x, Pow(2, args.zoom))
         /\ -29 * Pow(2, args.zoom) * p.y.d <= 100 * p.y.n
         /\ 100 * p.y.n <= 129 * Pow(2, args.zoom) * p.y.d
    /\ LatWithin(args.lat1, 85) => InRange(TopLeft(args).y, Pow(2, args.zoom))
    /\ LatWithin(args.lat2, 85) => InRange(BottomRight(args).y, Pow(2, args.zoom))

\* C12's case: the corners at latitude 90 and -90 and at longitude 180 have
\* been projected, at a zoom above 0.
C12_Witness ==
  /\ Projected /\ args.zoom > 0
  /\ args.lat1 = [n |-> 900, d |-> 10] /\ args.lat2 = [n |-> -900, d |-> 10]
  /\ args.lon2 = [n |-> 1800, d |-> 10]
  /\ TopLeft(args).y.n < 0
  /\ BottomRight(args).y.n > Pow(2, args.zoom) * YDen

\* C13: for every decoded tile of the range the destination rectangle that
\* build_row computes is within the canvas, 0 <= img_x_l <= img_x_r <= img_w
\* and 0 <= img_y_l <= img_y_r <= img_h, and it is empty for a tile entirely
\* outside the canvas.
C13_DestWithinCanvas ==
  Planned =>
    \A t \in Decoded :
      LET p == Placement(geo, tile_size, t[1], t[2])
      IN  /\ 0 <= p.img_x_l /\ p.img_x_l <= p.img_x_r /\ p.img_x_r <= geo.img_w
          /\ 0 <= p.img_y_l /\ p.img_y_l <= p.img_y_r /\ p.img_y_r <= geo.img_h
          /\ OutsideCanvas(t) =>
               p.img_x_l = p.img_x_r \/ p.img_y_l = p.img_y_r

\* C14, the order of the requests: there is one row thread per tile row of
\* the range, every request of a row thread is for a tile of the range, no
\* tile is requested twice by the row threads, the tiles of a row requested
\* so far are an initial segment of the row (ascending tile_x), and a row
\* thread has one request outstanding at most.
C14_RequestsInOrder ==
  Planned =>
    /\ DOMAIN threads = Rows(geo)
    /\ \A q \in BagToSet(http) :
         q.by = "row" =>
           /\ q.x \in Cols(geo) /\ q.y \in Rows(geo) /\ q.z = args.zoom
           /\ CopiesIn(q, http) = 1
    /\ \A y \in Rows(geo) :
         \A x \in Requested(y) : geo.tl_tile_x .. x \subseteq Requested(y)
    /\ \A y \in Rows(geo) :
         Cardinality({x \in Requested(y) : reply[<<x, y>>] = "unasked"}) <= 1
    /\ \A y \in Rows(geo) :
         threads[y].pc = "done" => Requested(y) = Cols(geo)

\* C14: when the row threads have ended (on a server of uniform colour
\* tiles), every tile of the range has been requested exactly once by the
\* row threads.
C14_EachTileRequestedOnce ==
  (pc = "encode" /\ UniformColour) =>
    \A t \in Cols(geo) \X Rows(geo) : CopiesIn(RowRequest(t[1], t[2]), http) = 1

\* C15, with the tile the code computes: once line 174 has run, exactly one
\* probe request has been issued, for tile (int(tl_proj_x), int(tl_proj_y))
\* at the run's zoom; no row request and no canvas exists before it; the
\* tile size is the probe's and stays so.
C15_ProbeOnceFrozen ==
  /\ ~Probed => http = EmptyBag /\ img = << >> /\ threads = << >>
  /\ Probed => OneProbeFor(ProbeTile(args).x, ProbeTile(args).y)
  /\ TileSizeFrozen

\* C15: once line 174 has run, exactly one probe request has been issued,
\* for tile (floor(topLeft.x), floor(topLeft.y)) at the run's zoom; no row
\* request and no canvas exists before it; the tile size is the probe's and
\* stays so.
C15_ProbeTopLeftFloor ==
  /\ ~Probed => http = EmptyBag /\ img = << >> /\ threads = << >>
  /\ Probed => OneProbeFor(Floor(TopLeft(args).x.n, TopLeft(args).x.d),
                           Floor(TopLeft(args).y.n, TopLeft(args).y.d))
  /\ TileSizeFrozen

\* C16, the orchestrator: with a fair scheduler and requests that return,
\* once the row threads are started the main thread reaches cv2.imwrite.
C16_EncodeReached == RequestsReturn => ((pc = "join") ~> (pc = "encode"))

\* C16: with a fair scheduler and requests that return, once the row threads
\* are started (on a server of uniform colour tiles), every row thread goes
\* through every tile of its row and ends, and the main thread reaches
\* cv2.imwrite.
C16_RowsRunToCompletion ==
  RequestsReturn =>
    ((pc = "join" /\ UniformColour) ~> (pc = "encode" /\ RowsComplete))

\* C17: when the server's colour tiles decode to a size or channel count
\* other than the probed tile size, no row thread is ended by the copy of a
\* tile: a row thread that was ended by an exception was ended by a request
\* that failed.
C17_MismatchNoCrash ==
  (Mismatched /\ server.c > 0) =>
    \A r \in DOMAIN threads :
      /\ ~CrashedInCopy(r)
      /\ threads[r].pc = "crashed" => reply[<<threads[r].tile_x, r>>] = "raise"

\* C18: with the corners in the right order and the tiles decoded at the
\* probed size, for every decoded tile the source crop and the destination
\* rectangle clipped to the canvas have the same width and the same height,
\* the source crop lies within the tile (0 <= cr_x_l <= cr_x_r <= tile_size_x,
\* 0 <= cr_y_l <= cr_y_r <= tile_size_y), and no row thread is ended by the
\* copy.
C18_CropMatchesDest ==
  (Planned /\ RightOrder /\ UniformColour) =>
    /\ \A t \in Decoded :
         LET p == Placement(geo, tile_size, t[1], t[2])
         IN  /\ SliceLen(SrcX(geo, tile_size, t[1], server))
                  = SliceLen(DestX(geo, tile_size, t[1]))
             /\ SliceLen(SrcY(geo, tile_size, t[2], server))
                  = SliceLen(DestY(geo, tile_size, t[2]))
             /\ 0 <= p.cr_x_l /\ p.cr_x_l <= p.cr_x_r /\ p.cr_x_r <= tile_size.x
             /\ 0 <= p.cr_y_l /\ p.cr_y_l <= p.cr_y_r /\ p.cr_y_r <= tile_size.y
    /\ \A r \in DOMAIN threads : ~CrashedInCopy(r)

\* C19 as stated: in every state of a run after lines 189-190,
\* 0 <= tiles_current <= tiles_total and no value given to the bar exceeds
\* tiles_total.
C19_CounterBounded == Counting => CounterBounded

\* C19 amended: the same in every state of a run whose corners are in the
\* right order (the bottom-right corner south-east of the top-left one).
C19_CounterBoundedRightOrder == (Counting /\ RightOrder) => CounterBounded

\* C19's case: in a run of two or more row threads and corners in the right
\* order, every tile has been counted: the counter has reached tiles_total
\* and a row thread has given the bar tiles_total, before bar.finish().
C19_Witness ==
  /\ Counting /\ RightOrder
  /\ Cardinality(DOMAIN threads) >= 2 /\ geo.tiles_total >= 2
  /\ tiles_current = geo.tiles_total /\ bar.value = geo.tiles_total
  /\ bar.state = "started"

\* C20: every tile requested from the server, by the probe and by the row
\* threads, lies inside the grid of the zoom level: 0 <= x <= 2^zoom - 1 and
\* 0 <= y <= 2^zoom - 1.
C20_RequestsInGrid ==
  \A q \in BagToSet(http) :
    /\ 0 <= q.x /\ q.x <= Pow(2, q.z) - 1
    /\ 0 <= q.y /\ q.y <= Pow(2, q.z) - 1

====
